---------------------------- MODULE Spec2Model ----------------------------
(***************************************************************************)
(* Model of gcp_cost_analyzer.py: the report pipeline of main() and the    *)
(* analyzers it calls.                                                     *)
(*                                                                         *)
(* Representation.                                                         *)
(*   - A Python str taken from the inventory data (names, paths, sizes) is *)
(*     a sequence of one-character strings, so that split('/'), lower(),   *)
(*     int() and the substring test `in` are computed as Python computes   *)
(*     them.                                                               *)
(*   - A report text is the sequence of its lines as text.split('\n')      *)
(*     gives them: the last element is the unterminated remainder.  A line *)
(*     is a record [t, n, a]: t is the f-string template of the source     *)
(*     line, n the integer it interpolates (0 if none), a the strings it   *)
(*     interpolates, in order.                                             *)
(*   - A JSON object is a record; `'k' in d` is "k" \in DOMAIN d.          *)
(*   - The external process is the environment: each invocation ends in    *)
(*     one of "oserror" (subprocess.run raises OSError: the command cannot *)
(*     be started), "undecodable" (the bytes captured from stdout or       *)
(*     stderr are not text in the locale's encoding: subprocess.run, which *)
(*     decodes before it looks at the exit status, raises                  *)
(*     UnicodeDecodeError), "nonzero" (CalledProcessError) or "ok" with    *)
(*     captured stdout.  A stdout text is [form, val]: form "empty" (''),  *)
(*     "malformed" (json.loads raises JSONDecodeError), "nested" (brackets *)
(*     nested past the interpreter's recursion limit: json.loads raises    *)
(*     RecursionError), "longint" (an integer literal of more than         *)
(*     int_max_str_digits digits: json.loads raises ValueError) or "json"  *)
(*     with val the decoded value.                                         *)
(***************************************************************************)
EXTENDS Integers, Sequences, FiniteSets, TLC

VARIABLES
    pc,              \* position in main(), or in a single analyzer call
    exc,             \* the exception that left main(), "none" if none
    outcome,         \* per external command: how the process ended
    project_info,    \* main's local: the value of get_project_info()
    buckets,         \* analyze_storage's local
    addresses,       \* analyze_network's local
    compute_report,  \* main's local
    storage_report,  \* main's local
    network_report,  \* main's local
    file_state,      \* REPORT_FILE: "absent", "open" or "closed"
    file,            \* text written to REPORT_FILE
    printed,         \* lines printed to standard output
    events           \* history: external calls and file operations, in order

vars == <<pc, exc, outcome, project_info, buckets, addresses, compute_report,
          storage_report, network_report, file_state, file, printed, events>>

---------------------------------------------------------------------------
(* Bounds of the model *)

\* longest instance listing drawn for the compute analyzer
MaxInstances == 3

\* longest disk listing drawn for the storage analyzer
MaxDisks == 2

---------------------------------------------------------------------------
(* Python strings as character sequences *)

Str_slash == "/"

n1_standard_8 == <<"n","1","-","s","t","a","n","d","a","r","d","-","8">>

n1_standard_16 == <<"n","1","-","s","t","a","n","d","a","r","d","-","1","6">>

n2_standard_8 == <<"n","2","-","s","t","a","n","d","a","r","d","-","8">>

n2_standard_16 == <<"n","2","-","s","t","a","n","d","a","r","d","-","1","6">>

e2_standard_8 == <<"e","2","-","s","t","a","n","d","a","r","d","-","8">>

e2_standard_16 == <<"e","2","-","s","t","a","n","d","a","r","d","-","1","6">>

\* the list literal of the comprehension at lines 72-74, in its order
LARGE_TYPES == <<n1_standard_8, n1_standard_16, n2_standard_8,
                 n2_standard_16, e2_standard_8, e2_standard_16>>

ssd == <<"s","s","d">>

NA == <<"N","/","A">>

\* the characters str.lower() changes, among the characters a string
\* literal can hold (up to U+00FF): A-Z and U+00C0..U+00DE without U+00D7
UpperCase == <<"A","B","C","D","E","F","G","H","I","J","K","L","M",
               "N","O","P","Q","R","S","T","U","V","W","X","Y","Z",
               "À","Á","Â","Ã","Ä","Å","Æ","Ç","È","É","Ê","Ë","Ì","Í","Î","Ï",
               "Ð","Ñ","Ò","Ó","Ô","Õ","Ö","Ø","Ù","Ú","Û","Ü","Ý","Þ">>

\* what str.lower() makes of them: a-z and U+00E0..U+00FE without U+00F7
LowerCase == <<"a","b","c","d","e","f","g","h","i","j","k","l","m",
               "n","o","p","q","r","s","t","u","v","w","x","y","z",
               "à","á","â","ã","ä","å","æ","ç","è","é","ê","ë","ì","í","î","ï",
               "ð","ñ","ò","ó","ô","õ","ö","ø","ù","ú","û","ü","ý","þ">>

\* str.lower() on one character
LowerChar(c) ==
    IF \E i \in 1..Len(UpperCase) : UpperCase[i] = c
    THEN LowerCase[CHOOSE i \in 1..Len(UpperCase) : UpperCase[i] = c]
    ELSE c

\* str.lower()
Lower(s) == [i \in 1..Len(s) |-> LowerChar(s[i])]

\* s.split('/')[-1]: the text after the last '/', all of s if there is none
LastSegment(s) ==
    LET cuts == {i \in 1..Len(s) : s[i] = Str_slash}
        from == IF cuts = {} THEN 1
                ELSE (CHOOSE i \in cuts : \A j \in cuts : j <= i) + 1
    IN SubSeq(s, from, Len(s))

\* `sub in s` on str: sub occurs in s as a contiguous run of characters
Contains(s, sub) ==
    \E i \in 1..(Len(s) - Len(sub) + 1) : SubSeq(s, i, i + Len(sub) - 1) = sub

Digits == <<"0","1","2","3","4","5","6","7","8","9">>

IsDigit(c) == \E i \in 1..10 : Digits[i] = c

DigitValue(c) == (CHOOSE i \in 1..10 : Digits[i] = c) - 1

\* the characters int() skips around a literal, among the characters a
\* string literal can hold (up to U+00FF): space, tab, line feed, carriage
\* return, form feed, and, written raw, vertical tab (U+000B), next line
\* (U+0085) and no-break space (U+00A0)
Whitespace == {" ", "\t", "\n", "\r", "\f", "", "", " "}

\* the surrounding whitespace int() skips
Strip(s) ==
    LET keep == {i \in 1..Len(s) : s[i] \notin Whitespace}
    IN IF keep = {} THEN <<>>
       ELSE SubSeq(s, CHOOSE i \in keep : \A j \in keep : i <= j,
                      CHOOSE i \in keep : \A j \in keep : j <= i)

\* the digits of an integer literal: decimal digits, single underscores
\* allowed between two digits
IsDigitRun(r) ==
    /\ Len(r) > 0
    /\ \A i \in 1..Len(r) : IsDigit(r[i]) \/ r[i] = "_"
    /\ IsDigit(r[1])
    /\ IsDigit(r[Len(r)])
    /\ \A i \in 1..(Len(r) - 1) : ~(r[i] = "_" /\ r[i + 1] = "_")

\* a digit run from its first nonzero digit on: the leading zeros and the
\* underscores among them add nothing to the value
Significant(r) ==
    LET nz == {i \in 1..Len(r) : r[i] \notin {"0", "_"}}
    IN IF nz = {} THEN <<>>
       ELSE SubSeq(r, CHOOSE i \in nz : \A j \in nz : i <= j, Len(r))

\* the value of a digit run, underscores skipped
RECURSIVE DigitRunValue(_)
DigitRunValue(r) ==
    IF Len(r) = 0 THEN 0
    ELSE IF r[Len(r)] = "_" THEN DigitRunValue(SubSeq(r, 1, Len(r) - 1))
    ELSE 10 * DigitRunValue(SubSeq(r, 1, Len(r) - 1)) + DigitValue(r[Len(r)])

\* sys.get_int_max_str_digits() of the interpreter: the longest literal, in
\* digits, that int() converts
int_max_str_digits == 4300

\* the digits int() counts against the limit: every digit of the run,
\* leading zeros included, underscores not
DigitCount(r) == Cardinality({i \in 1..Len(r) : r[i] # "_"})

\* int(s) for a str s: surrounding whitespace and one sign are accepted;
\* anything but an integer literal, the empty string included, raises
\* ValueError, and so does a literal of more than int_max_str_digits digits
ParseInt(s) ==
    LET t == Strip(s)
        signed == Len(t) > 0 /\ t[1] \in {"+", "-"}
        r == IF signed THEN Tail(t) ELSE t
    IN IF IsDigitRun(r) /\ DigitCount(r) <= int_max_str_digits
       THEN [raised |-> "none",
             val |-> IF signed /\ t[1] = "-"
                     THEN 0 - DigitRunValue(Significant(r))
                     ELSE DigitRunValue(Significant(r))]
       ELSE [raised |-> "ValueError", val |-> 0]

---------------------------------------------------------------------------
(* Report text *)

\* a line with nothing interpolated
L(t) == [t |-> t, n |-> 0, a |-> <<>>]

\* a line interpolating an integer
LN(t, n) == [t |-> t, n |-> n, a |-> <<>>]

\* a line interpolating strings
LA(t, a) == [t |-> t, n |-> 0, a |-> a]

\* the empty line, also the remainder of a text that ends in '\n'
Blank == L("")

\* a + b on text: the remainder of a continues with the first line of b
Concat(a, b) ==
    LET x == a[Len(a)]
        y == b[1]
        joined == IF x = Blank THEN y
                  ELSE IF y = Blank THEN x
                  ELSE [t |-> x.t \o y.t, n |-> x.n + y.n, a |-> x.a \o y.a]
    IN SubSeq(a, 1, Len(a) - 1) \o <<joined>> \o Tail(b)

\* the text of complete lines ls, each ended by '\n'
Lines(ls) == ls \o <<Blank>>

\* "=" * 50 + "\n\n"
Rule50 == Lines(<<L("=================================================="), Blank>>)

---------------------------------------------------------------------------
(* run_gcloud and json.loads *)

\* Python's None, as a value a text variable may hold
None == [form |-> "None", val |-> <<>>]

\* `if x:` for x a str or None
Truthy(x) == x.form \notin {"None", "empty"}

\* a line print() writes to standard output
P(t, a) == [t |-> t, a |-> a]

\* run_gcloud(args), the process ending as proc: only CalledProcessError is
\* caught (lines 16-19); any other exception of subprocess.run leaves the
\* function.  With text=True the captured bytes are decoded before the
\* exit status is checked, so undecodable output raises whatever the status
run_gcloud(cmd, proc) ==
    CASE proc.kind = "ok" ->
           [raised |-> "none", ret |-> proc.stdout, out |-> <<>>]
      [] proc.kind = "nonzero" ->
           [raised |-> "none", ret |-> None,
            out |-> <<P("Error running command: {command}", cmd),
                      P("Error: {e.stderr}", "")>>]
      [] proc.kind = "undecodable" ->
           [raised |-> "UnicodeDecodeError", ret |-> None, out |-> <<>>]
      [] proc.kind = "oserror" ->
           [raised |-> "OSError", ret |-> None, out |-> <<>>]

\* json.loads(text): the decoded value, or the exception it raises
json_loads(text) ==
    CASE text.form = "json" ->
           [ok |-> TRUE, raised |-> "none", val |-> text.val]
      [] text.form = "nested" ->
           [ok |-> FALSE, raised |-> "RecursionError", val |-> <<>>]
      [] text.form = "longint" ->
           [ok |-> FALSE, raised |-> "ValueError", val |-> <<>>]
      [] text.form \in {"malformed", "empty"} ->
           [ok |-> FALSE, raised |-> "JSONDecodeError", val |-> <<>>]

\* the exception of json.loads(x) that `except json.JSONDecodeError` does
\* not catch, for x as run_gcloud returned it; "none" if json.loads is not
\* reached (`if x:` fails), returns, or raises JSONDecodeError
LoadsEscape(x) ==
    IF Truthy(x) /\ json_loads(x).raised \notin {"none", "JSONDecodeError"}
    THEN json_loads(x).raised
    ELSE "none"

\* get_project_info() after run_gcloud returned ret: json.loads is not
\* guarded here (line 25)
get_project_info(ret) ==
    IF Truthy(ret)
    THEN LET j == json_loads(ret)
         IN IF j.ok THEN [raised |-> "none", val |-> j.val, isNone |-> FALSE]
            ELSE [raised |-> j.raised, val |-> <<>>, isNone |-> TRUE]
    ELSE [raised |-> "none", val |-> <<>>, isNone |-> TRUE]

---------------------------------------------------------------------------
(* analyze_compute_instances *)

\* TallyType with `machine_types[machine_type] = 1` for lines 51-53
TallyType_assign(d, key) ==
    IF \E i \in 1..Len(d) : d[i].k = key
    THEN d
    ELSE Append(d, [k |-> key, v |-> 1])

\* machine_types after one more instance of type key (lines 51-53): a dict
\* keeps its keys in insertion order
TallyType(d, key) ==
    IF \E i \in 1..Len(d) : d[i].k = key
    THEN [i \in 1..Len(d) |->
            IF d[i].k = key THEN [k |-> key, v |-> d[i].v + 1] ELSE d[i]]
    ELSE Append(d, [k |-> key, v |-> 1])

\* machine_types after the loop of lines 49-53
RECURSIVE machine_types(_)
machine_types(data) ==
    IF data = <<>> THEN <<>>
    ELSE TallyType(machine_types(SubSeq(data, 1, Len(data) - 1)),
                   LastSegment(data[Len(data)].machineType))

\* the lines of lines 56-57
SummaryRows(data) ==
    LET d == machine_types(data)
    IN [i \in 1..Len(d) |->
          [t |-> "  - {machine_type}: {count} instances", n |-> d[i].v,
           a |-> <<d[i].k>>]]

\* IsStopped with another status label
IsStopped_label(i) == i.status = "STOPPED"

\* the test of the comprehension at line 63
IsStopped(i) == i.status = "TERMINATED"

\* stopped_instances (line 63)
stopped_instances(data) == SelectSeq(data, IsStopped)

\* lines 64-68
StoppedPart(data) ==
    LET s == stopped_instances(data)
    IN IF s # <<>>
       THEN <<Blank,
              LN("1. You have {len(stopped_instances)} stopped instances that are still incurring storage costs:", Len(s))>>
            \o [k \in 1..Len(s) |->
                  LA("   - {name} (Zone: {zone})",
                     <<s[k].name, LastSegment(s[k].zone)>>)]
            \o <<L("   Recommendation: Delete unused instances to avoid storage charges.")>>
       ELSE <<>>

\* IsLarge comparing the final segment with the six names
IsLarge_exact(i) ==
    \E k \in 1..Len(LARGE_TYPES) : LastSegment(i.machineType) = LARGE_TYPES[k]

\* the test of the comprehension at lines 71-74
IsLarge(i) ==
    \E k \in 1..Len(LARGE_TYPES) : Contains(i.machineType, LARGE_TYPES[k])

\* large_instances (lines 71-74)
large_instances(data) == SelectSeq(data, IsLarge)

\* lines 75-80
LargePart(data) ==
    LET s == large_instances(data)
    IN IF s # <<>>
       THEN <<Blank,
              LN("2. You have {len(large_instances)} large instances that might be oversized:", Len(s))>>
            \o [k \in 1..Len(s) |->
                  LA("   - {name} (Type: {machine_type}, Zone: {zone})",
                     <<s[k].name, LastSegment(s[k].machineType),
                       LastSegment(s[k].zone)>>)]
            \o <<L("   Recommendation: Monitor CPU and memory usage and consider downsizing if utilization is low.")>>
       ELSE <<>>

\* lines 83-89
ComputeAdvice ==
    <<Blank,
      L("3. Sustained Use Discount Opportunities:"),
      L("   - Instances running continuously for a month automatically receive sustained use discounts."),
      L("   - Consider converting eligible workloads to committed use contracts for 1-3 year terms to save 20-60%."),
      Blank,
      L("4. Preemptible VM Opportunities:"),
      L("   - For fault-tolerant, batch processing workloads, consider using preemptible VMs to save up to 80%.")>>

ComputeHeader == L("COMPUTE ENGINE OPTIMIZATION RECOMMENDATIONS:")

\* lines 41-42
ComputeHead == Concat(Lines(<<ComputeHeader>>), Rule50)

\* lines 32-91: the report for what run_gcloud returned, json.loads having
\* returned or raised JSONDecodeError
ComputeReport(instances) ==
    IF ~Truthy(instances)
    THEN <<L("No Compute Engine instances found or error retrieving data.")>>
    ELSE LET j == json_loads(instances)
         IN IF ~j.ok
            THEN <<L("Error parsing Compute Engine data.")>>
            ELSE IF j.val = <<>>
            THEN Concat(ComputeHead,
                        Lines(<<L("No Compute Engine instances found.")>>))
            ELSE Concat(ComputeHead,
                        Lines(<<L("Instance Types Summary:")>>
                              \o SummaryRows(j.val)
                              \o <<Blank, L("Optimization Opportunities:")>>
                              \o StoppedPart(j.val)
                              \o LargePart(j.val)
                              \o ComputeAdvice))

\* analyze_compute_instances() after run_gcloud returned instances: the
\* report it returns, or the exception that leaves it (the except clause of
\* line 37 names json.JSONDecodeError only)
analyze_compute_instances(instances) ==
    IF LoadsEscape(instances) # "none"
    THEN [raised |-> LoadsEscape(instances), report |-> <<>>]
    ELSE [raised |-> "none", report |-> ComputeReport(instances)]

---------------------------------------------------------------------------
(* analyze_storage *)

StorageHeader == L("STORAGE OPTIMIZATION RECOMMENDATIONS:")

\* lines 107-121
BucketPart(b) ==
    IF Truthy(b)
    THEN LET j == json_loads(b)
         IN <<IF j.ok
              THEN LN("1. You have {len(buckets_data)} Cloud Storage buckets.", Len(j.val))
              ELSE L("1. You have Cloud Storage buckets, but couldn't parse the data."),
              L("   Storage Class Recommendations:"),
              L("   - Standard Storage: Use for frequently accessed data (multiple times a month)"),
              L("   - Nearline Storage: Use for data accessed less than once a month (20% cheaper)"),
              L("   - Coldline Storage: Use for data accessed less than once a quarter (50% cheaper)"),
              L("   - Archive Storage: Use for data accessed less than once a year (90% cheaper)"),
              L("   Recommendation: Set up Object Lifecycle Management to automatically transition objects to cheaper storage classes.")>>
    ELSE <<L("No Cloud Storage buckets found or error retrieving data.")>>

\* IsUnattached without the test for an empty list
IsUnattached_absent(d) == "users" \notin DOMAIN d

\* the test of the comprehension at line 130
IsUnattached(d) ==
    \/ "users" \notin DOMAIN d
    \/ d.users = <<>>

\* unattached_disks (line 130)
unattached_disks(data) == SelectSeq(data, IsUnattached)

\* sum(int(d['sizeGb']) for d in unattached_disks) (line 133): the first
\* int() that raises ends the sum
RECURSIVE total_size_gb(_)
total_size_gb(ds) ==
    IF ds = <<>> THEN [raised |-> "none", val |-> 0]
    ELSE LET h == ParseInt(ds[1].sizeGb)
             rest == total_size_gb(Tail(ds))
         IN IF h.raised # "none" THEN h
            ELSE IF rest.raised # "none" THEN rest
            ELSE [raised |-> "none", val |-> h.val + rest.val]

\* lines 131-137
UnattachedPart(data) ==
    LET u == unattached_disks(data)
    IN IF u # <<>>
       THEN <<LN("1. You have {len(unattached_disks)} unattached persistent disks that are incurring costs:", Len(u))>>
            \o [k \in 1..Len(u) |->
                  LA("   - {name} (Size: {sizeGb} GB, Type: {type})",
                     <<u[k].name, u[k].sizeGb, LastSegment(u[k].type)>>)]
            \o <<LN("   Total unattached disk space: {total_size_gb} GB", total_size_gb(u).val),
                 L("   Recommendation: Delete unattached disks or create snapshots before deletion if the data is needed.")>>
       ELSE <<>>

\* the test of the comprehension at line 140
IsSsd(d) == Contains(Lower(d.type), ssd)

\* lines 140-143
SsdPart(data) ==
    LET s == SelectSeq(data, IsSsd)
    IN IF s # <<>>
       THEN <<Blank,
              LN("2. You have {len(ssd_disks)} SSD persistent disks:", Len(s)),
              L("   Recommendation: For non-performance-critical workloads, consider using Standard persistent disks to reduce costs.")>>
       ELSE <<>>

\* lines 125-147
DiskPart(d) ==
    IF Truthy(d)
    THEN LET j == json_loads(d)
         IN IF j.ok THEN UnattachedPart(j.val) \o SsdPart(j.val)
            ELSE <<L("Error parsing disk data.")>>
    ELSE <<L("No persistent disks found or error retrieving data.")>>

\* the exception that leaves the try block of lines 126-145: the except
\* clause names json.JSONDecodeError only, so neither another exception of
\* json.loads nor the ValueError of int() at line 133 is caught
DiskRaised(d) ==
    IF LoadsEscape(d) # "none" THEN LoadsEscape(d)
    ELSE IF Truthy(d) /\ json_loads(d).ok
    THEN total_size_gb(unattached_disks(json_loads(d).val)).raised
    ELSE "none"

BucketHeading == L("Cloud Storage Optimization:")

DiskHeading == L("Persistent Disk Optimization:")

\* analyze_storage() after run_gcloud returned b, then d (lines 102-149):
\* the report it returns, or the exception that leaves it, the bucket
\* listing being decoded first (line 109), the disk listing second (line 127)
analyze_storage(b, d) ==
    IF LoadsEscape(b) # "none"
    THEN [raised |-> LoadsEscape(b), report |-> <<>>]
    ELSE IF DiskRaised(d) # "none"
    THEN [raised |-> DiskRaised(d), report |-> <<>>]
    ELSE [raised |-> "none",
          report |->
             Concat(Concat(Lines(<<StorageHeader>>), Rule50),
                    Lines(<<BucketHeading>> \o BucketPart(b)
                          \o <<Blank, DiskHeading>> \o DiskPart(d)))]

---------------------------------------------------------------------------
(* analyze_network *)

NetworkHeader == L("NETWORKING OPTIMIZATION RECOMMENDATIONS:")

\* the test of the comprehension at line 169
IsReserved(a) == a.status = "RESERVED"

\* lines 173-175
AddressLine(ip) ==
    LET in_use == "users" \in DOMAIN ip /\ ip.users # <<>>
    IN LA(IF in_use THEN "   - {address} (Name: {name}, Status: In use)"
          ELSE "   - {address} (Name: {name}, Status: Not in use)",
          <<ip.address, ip.name>>)

\* lines 165-180
AddressPart(a) ==
    IF Truthy(a)
    THEN LET j == json_loads(a)
         IN IF ~j.ok THEN <<L("Error parsing IP address data.")>>
            ELSE LET static_ips == SelectSeq(j.val, IsReserved)
                 IN IF j.val # <<>> /\ static_ips # <<>>
                    THEN <<LN("1. You have {len(static_ips)} reserved static external IP addresses:", Len(static_ips))>>
                         \o [k \in 1..Len(static_ips) |-> AddressLine(static_ips[k])]
                         \o <<L("   Recommendation: Delete unused static IPs as they incur charges even when not attached to resources.")>>
                    ELSE <<>>
    ELSE <<L("No external IP addresses found or error retrieving data.")>>

\* rule.get(key, 'N/A')
GetOrNA(rule, key) == IF key \in DOMAIN rule THEN rule[key] ELSE NA

\* line 190
RuleLine(rule) ==
    LA("   - {name} (IP: {IPAddress}, Target: {target})",
       <<rule.name, GetOrNA(rule, "IPAddress"),
         LastSegment(GetOrNA(rule, "target"))>>)

\* lines 184-195
RulePart(r) ==
    IF Truthy(r)
    THEN LET j == json_loads(r)
         IN IF ~j.ok THEN <<L("Error parsing forwarding rules data.")>>
            ELSE IF j.val # <<>>
            THEN <<LN("1. You have {len(rules_data)} load balancer forwarding rules:", Len(j.val))>>
                 \o [k \in 1..Len(j.val) |-> RuleLine(j.val[k])]
                 \o <<L("   Recommendation: Load balancers incur hourly charges. Consider consolidating load balancers where possible.")>>
            ELSE <<>>
    ELSE <<L("No load balancers found or error retrieving data.")>>

AddressHeading == L("External IP Address Optimization:")

RuleHeading == L("Load Balancer Optimization:")

\* analyze_network() after run_gcloud returned a, then r (lines 160-197):
\* the report it returns, or the exception that leaves it, the address
\* listing being decoded first (line 167), the rule listing second (line 186)
analyze_network(a, r) ==
    IF LoadsEscape(a) # "none"
    THEN [raised |-> LoadsEscape(a), report |-> <<>>]
    ELSE IF LoadsEscape(r) # "none"
    THEN [raised |-> LoadsEscape(r), report |-> <<>>]
    ELSE [raised |-> "none",
          report |->
             Concat(Concat(Lines(<<NetworkHeader>>), Rule50),
                    Lines(<<AddressHeading>> \o AddressPart(a)
                          \o <<Blank, RuleHeading>> \o RulePart(r)))]

---------------------------------------------------------------------------
(* analyze_billing, generate_cost_recommendations *)

BillingHeader == L("BILLING OPTIMIZATION RECOMMENDATIONS:")

\* lines 202-219
analyze_billing ==
    Concat(Concat(Lines(<<BillingHeader>>), Rule50),
           Lines(<<L("1. Set up Budget Alerts:"),
                   L("   - Create budget alerts to notify you when spending approaches predefined thresholds"),
                   L("   - Use the following command to create a budget alert:"),
                   L("     gcloud billing budgets create --billing-account=ACCOUNT_ID --display-name=BUDGET_NAME --budget-amount=1000USD --threshold-rules=percent=80"),
                   Blank,
                   L("2. Export Billing Data to BigQuery:"),
                   L("   - Export your billing data to BigQuery for detailed analysis"),
                   L("   - Create custom dashboards to track spending by project, service, and label"),
                   L("   - Use Data Studio to visualize your spending patterns"),
                   Blank,
                   L("3. Use Labels for Cost Allocation:"),
                   L("   - Apply consistent labels to all resources for better cost tracking"),
                   L("   - Example labels: environment (prod, dev, test), team, project, application")>>))

GeneralHeader == L("GENERAL COST OPTIMIZATION RECOMMENDATIONS:")

\* lines 223-268: the literal opens with a newline
generate_cost_recommendations ==
    Lines(<<Blank,
            GeneralHeader,
            L("========================================="),
            Blank,
            L("1. Resource Rightsizing:"),
            L("   - Regularly review and rightsize your resources based on actual usage patterns"),
            L("   - Use GCP's Recommender API to get automatic rightsizing recommendations"),
            Blank,
            L("2. Committed Use Discounts:"),
            L("   - Purchase committed use contracts for steady-state workloads to save up to 57%"),
            L("   - Analyze your usage patterns to determine optimal commitment levels"),
            Blank,
            L("3. Sustained Use Discounts:"),
            L("   - GCP automatically applies sustained use discounts for resources used for significant portions of the month"),
            L("   - Consolidate workloads to maximize these discounts"),
            Blank,
            L("4. Preemptible VMs:"),
            L("   - Use preemptible VMs for fault-tolerant, batch processing workloads to save up to 80%"),
            L("   - Ensure your applications can handle interruptions"),
            Blank,
            L("5. Storage Optimization:"),
            L("   - Use appropriate storage classes based on access frequency"),
            L("   - Implement lifecycle policies to automatically transition objects to cheaper storage classes"),
            L("   - Delete unnecessary snapshots and unattached persistent disks"),
            Blank,
            L("6. Networking Optimization:"),
            L("   - Avoid using external IPs for internal communication"),
            L("   - Use Cloud NAT for outbound traffic instead of assigning external IPs to each instance"),
            L("   - Delete unused static external IPs"),
            Blank,
            L("7. Budgets and Alerts:"),
            L("   - Set up budget alerts to notify you when spending approaches predefined thresholds"),
            L("   - Use GCP's Cost Explorer to identify cost trends and anomalies"),
            Blank,
            L("8. Scheduled Resources:"),
            L("   - Schedule non-production resources to shut down during off-hours"),
            L("   - Use Cloud Scheduler and Cloud Functions to automate resource management"),
            Blank,
            L("9. Containerization:"),
            L("   - Consider using Google Kubernetes Engine (GKE) to optimize resource utilization"),
            L("   - Use GKE Autopilot to let Google manage capacity provisioning"),
            Blank,
            L("10. Billing Export:"),
            L("    - Export billing data to BigQuery for detailed analysis"),
            L("    - Create custom dashboards to track spending by project, service, and label")>>)

---------------------------------------------------------------------------
(* Inventory data the external commands may return *)

vm1 == <<"v","m","1">>

vm2 == <<"v","m","2">>

MT_a_micro == <<"z","o","n","e","s","/","a","/","e","2","-","m","i","c","r","o">>

MT_b_micro == <<"z","o","n","e","s","/","b","/","e","2","-","m","i","c","r","o">>

MT_large == <<"z","o","n","e","s","/","a","/","n","2","-","s","t","a","n","d","a","r","d","-","8">>

MT_prefix == <<"z","o","n","e","s","/","a","/","n","2","-","s","t","a","n","d","a","r","d","-","8","0">>

MT_inner == <<"e","2","-","s","t","a","n","d","a","r","d","-","8","/","x">>

Zone_a == <<"z","o","n","e","s","/","a">>

disk1 == <<"d","i","s","k","1">>

disk2 == <<"d","i","s","k","2">>

Size10 == <<"1","0">>

Size200 == <<"2","0","0">>

\* a disk object whose sizeGb is the empty string
SizeNone == <<>>

DT_ssd == <<"t","y","p","e","s","/","p","d","-","S","S","D">>

DT_std == <<"t","y","p","e","s","/","p","d","-","s","t","a","n","d","a","r","d">>

ip1 == <<"i","p","1">>

ip2 == <<"i","p","2">>

Addr1 == <<"1","0",".","0",".","0",".","1">>

Addr2 == <<"1","0",".","0",".","0",".","2">>

lb1 == <<"l","b","1">>

Target1 == <<"p","o","o","l","s","/","p","1">>

demo == <<"d","e","m","o">>

\* every sequence over S of length at most n
SeqsUpTo(S, n) == UNION {[1..k -> S] : k \in 0..n}

MachineTypes == {MT_a_micro, MT_b_micro, MT_large, MT_prefix, MT_inner}

\* instance objects: the fields analyze_compute_instances subscripts
InstanceItems ==
    [name : {vm1, vm2}, machineType : MachineTypes,
     status : {"RUNNING", "TERMINATED"}, zone : {Zone_a}]

DiskBase ==
    [name : {disk1, disk2}, sizeGb : {Size10, Size200, SizeNone},
     type : {DT_ssd, DT_std}]

\* disk objects: 'users' absent, empty or naming an instance
DiskItems ==
    DiskBase \cup
    {[name |-> d.name, sizeGb |-> d.sizeGb, type |-> d.type, users |-> u] :
        d \in DiskBase, u \in {<<>>, <<vm1>>}}

EmptyText == [form |-> "empty", val |-> <<>>]

Malformed == [form |-> "malformed", val |-> <<>>]

\* '[' repeated past the recursion limit: malformed JSON, its brackets
\* never closed, that json.loads gives up on before reaching the end
Unclosed == [form |-> "nested", val |-> <<>>]

\* a listing holding an integer literal of more than int_max_str_digits
\* digits
LongInt == [form |-> "longint", val |-> <<>>]

Json(v) == [form |-> "json", val |-> v]

Ok(text) == [kind |-> "ok", stdout |-> text]

NotRun == [kind |-> "notrun"]

\* stdout or stderr of the process is not text in the locale's encoding
Undecodable == [kind |-> "undecodable"]

\* how a process may end without a listing json.loads decodes
Degraded ==
    {[kind |-> "oserror"], [kind |-> "nonzero"], Undecodable,
     Ok(EmptyText), Ok(Malformed), Ok(Unclosed), Ok(LongInt)}

Inst(n, m, st) == [name |-> n, machineType |-> m, status |-> st, zone |-> Zone_a]

InstanceSamples ==
    {<<>>,
     <<Inst(vm1, MT_a_micro, "TERMINATED")>>,
     <<Inst(vm1, MT_a_micro, "TERMINATED"), Inst(vm2, MT_large, "RUNNING")>>}

BucketSamples == {<<>>, <<[name |-> disk1]>>}

DiskSamples ==
    {<<>>,
     <<[name |-> disk1, sizeGb |-> Size10, type |-> DT_ssd]>>,
     <<[name |-> disk1, sizeGb |-> Size10, type |-> DT_std, users |-> <<vm1>>],
       [name |-> disk2, sizeGb |-> Size200, type |-> DT_std, users |-> <<>>]>>}

AddressSamples ==
    {<<>>,
     <<[name |-> ip1, address |-> Addr1, status |-> "IN_USE", users |-> <<vm1>>]>>,
     <<[name |-> ip1, address |-> Addr1, status |-> "RESERVED"],
       [name |-> ip2, address |-> Addr2, status |-> "RESERVED", users |-> <<vm1>>]>>}

RuleSamples ==
    {<<>>,
     <<[name |-> lb1, IPAddress |-> Addr1, target |-> Target1]>>,
     <<[name |-> lb1]>>}

\* `gcloud config list --format=json`: an object, here {} or one section
ConfigSamples ==
    {<<>>,
     [compute |-> [zone |-> Zone_a]],
     [core |-> [account |-> vm1]],
     [core |-> [project |-> demo]]}

Outcomes(samples) == Degraded \cup {Ok(Json(v)) : v \in samples}

Commands ==
    {"config list", "compute instances list", "storage ls",
     "compute disks list", "compute addresses list",
     "compute forwarding-rules list"}

---------------------------------------------------------------------------
(* main *)

Init ==
    /\ pc = "main"
    /\ exc = "none"
    /\ outcome = [c \in Commands |-> NotRun]
    /\ project_info = <<>>
    /\ buckets = None
    /\ addresses = None
    /\ compute_report = <<>>
    /\ storage_report = <<>>
    /\ network_report = <<>>
    /\ file_state = "absent"
    /\ file = <<Blank>>
    /\ printed = <<>>
    /\ events = <<>>

\* `if not project_info` (line 277) for what get_project_info returned
NoProjectInfo(g) == g.isNone \/ DOMAIN g.val = {}

\* lines 284-288
Preamble(info) ==
    Concat(Concat(Lines(<<L("GCP COST OPTIMIZATION REPORT - {TODAY}")>>), Rule50),
           IF "core" \in DOMAIN info /\ "project" \in DOMAIN info.core
           THEN Lines(<<LA("Project: {project}", <<info.core.project>>), Blank>>)
           ELSE <<Blank>>)

\* report + "\n\n"
Section(report) == Concat(report, Lines(<<Blank, Blank>>))

\* an exception leaves main: inside the with block (line 283) the file is
\* closed on the way out
Raise(e) ==
    /\ pc' = "crashed"
    /\ exc' = e
    /\ file_state' = IF file_state = "open" THEN "closed" ELSE file_state

\* lines 272-288
Main_GetProjectInfo ==
    /\ pc = "main"
    /\ \E proc \in Outcomes(ConfigSamples) :
         LET r == run_gcloud("config list", proc)
             g == get_project_info(r.ret)
             banner == <<P("GCP Cost Optimization Tool", ""),
                         P("=========================", ""),
                         P("Getting project information...", "")>>
         IN /\ outcome' = [outcome EXCEPT !["config list"] = proc]
            /\ IF r.raised # "none"
               THEN /\ Raise(r.raised)
                    /\ printed' = banner
                    /\ events' = <<"call config list">>
                    /\ UNCHANGED <<project_info, file>>
               ELSE IF g.raised # "none"
               THEN /\ Raise(g.raised)
                    /\ printed' = banner \o r.out
                    /\ events' = <<"call config list">>
                    /\ UNCHANGED <<project_info, file>>
               ELSE IF NoProjectInfo(g)
               THEN /\ pc' = "done"
                    /\ printed' = banner \o r.out \o
                         <<P("Error: Unable to get project information. Make sure you're authenticated with GCP.", ""),
                           P("Run 'gcloud auth login' to authenticate.", "")>>
                    /\ events' = <<"call config list">>
                    /\ UNCHANGED <<exc, project_info, file_state, file>>
               ELSE /\ pc' = "compute"
                    /\ project_info' = g.val
                    /\ file_state' = "open"
                    /\ file' = Preamble(g.val)
                    /\ printed' = banner \o r.out
                    /\ events' = <<"call config list", "open", "write preamble">>
                    /\ UNCHANGED exc
    /\ UNCHANGED <<buckets, addresses, compute_report, storage_report, network_report>>

\* lines 291-292, with analyze_compute_instances (lines 28-91)
Main_AnalyzeCompute ==
    /\ pc = "compute"
    /\ \E proc \in Outcomes(InstanceSamples) :
         LET r == run_gcloud("compute instances list", proc)
             a == analyze_compute_instances(r.ret)
         IN /\ outcome' = [outcome EXCEPT !["compute instances list"] = proc]
            /\ printed' = printed \o <<P("Analyzing Compute Engine instances...", "")>> \o r.out
            /\ IF r.raised # "none"
               THEN /\ Raise(r.raised)
                    /\ events' = events \o <<"call compute instances list", "close">>
                    /\ UNCHANGED <<compute_report, file>>
               ELSE IF a.raised # "none"
               THEN /\ Raise(a.raised)
                    /\ events' = events \o <<"call compute instances list", "close">>
                    /\ UNCHANGED <<compute_report, file>>
               ELSE /\ pc' = "storage"
                    /\ compute_report' = a.report
                    /\ file' = Concat(file, Section(a.report))
                    /\ events' = events \o <<"call compute instances list", "write compute">>
                    /\ UNCHANGED <<exc, file_state>>
    /\ UNCHANGED <<project_info, buckets, addresses, storage_report, network_report>>

\* Storage_FetchBuckets issuing the disk listing first
Storage_FetchDisksFirst ==
    /\ pc = "storage"
    /\ \E proc \in Outcomes(BucketSamples) :
         LET r == run_gcloud("compute disks list", proc)
         IN /\ outcome' = [outcome EXCEPT !["compute disks list"] = proc]
            /\ printed' = printed \o <<P("Analyzing storage resources...", "")>> \o r.out
            /\ IF r.raised # "none"
               THEN /\ Raise(r.raised)
                    /\ events' = events \o <<"call compute disks list", "close">>
                    /\ UNCHANGED buckets
               ELSE /\ pc' = "storage_disks"
                    /\ buckets' = r.ret
                    /\ events' = events \o <<"call compute disks list">>
                    /\ UNCHANGED <<exc, file_state>>
    /\ UNCHANGED <<project_info, addresses, compute_report, storage_report,
                   network_report, file>>

\* analyze_storage up to its first fetch (lines 94-97)
Storage_FetchBuckets ==
    /\ pc = "storage"
    /\ \E proc \in Outcomes(BucketSamples) :
         LET r == run_gcloud("storage ls", proc)
         IN /\ outcome' = [outcome EXCEPT !["storage ls"] = proc]
            /\ printed' = printed \o <<P("Analyzing storage resources...", "")>> \o r.out
            /\ IF r.raised # "none"
               THEN /\ Raise(r.raised)
                    /\ events' = events \o <<"call storage ls", "close">>
                    /\ UNCHANGED buckets
               ELSE /\ pc' = "storage_disks"
                    /\ buckets' = r.ret
                    /\ events' = events \o <<"call storage ls">>
                    /\ UNCHANGED <<exc, file_state>>
    /\ UNCHANGED <<project_info, addresses, compute_report, storage_report,
                   network_report, file>>

\* the rest of analyze_storage (lines 100-149) and lines 295-296
Main_AnalyzeStorage ==
    /\ pc = "storage_disks"
    /\ \E proc \in Outcomes(DiskSamples) :
         LET r == run_gcloud("compute disks list", proc)
             a == analyze_storage(buckets, r.ret)
         IN /\ outcome' = [outcome EXCEPT !["compute disks list"] = proc]
            /\ printed' = printed \o r.out
            /\ IF r.raised # "none"
               THEN /\ Raise(r.raised)
                    /\ events' = events \o <<"call compute disks list", "close">>
                    /\ UNCHANGED <<storage_report, file>>
               ELSE IF a.raised # "none"
               THEN /\ Raise(a.raised)
                    /\ events' = events \o <<"call compute disks list", "close">>
                    /\ UNCHANGED <<storage_report, file>>
               ELSE /\ pc' = "network"
                    /\ storage_report' = a.report
                    /\ file' = Concat(file, Section(a.report))
                    /\ events' = events \o <<"call compute disks list", "write storage">>
                    /\ UNCHANGED <<exc, file_state>>
    /\ UNCHANGED <<project_info, buckets, addresses, compute_report, network_report>>

\* analyze_network up to its first fetch (lines 152-155)
Network_FetchAddresses ==
    /\ pc = "network"
    /\ \E proc \in Outcomes(AddressSamples) :
         LET r == run_gcloud("compute addresses list", proc)
         IN /\ outcome' = [outcome EXCEPT !["compute addresses list"] = proc]
            /\ printed' = printed \o <<P("Analyzing networking resources...", "")>> \o r.out
            /\ IF r.raised # "none"
               THEN /\ Raise(r.raised)
                    /\ events' = events \o <<"call compute addresses list", "close">>
                    /\ UNCHANGED addresses
               ELSE /\ pc' = "network_rules"
                    /\ addresses' = r.ret
                    /\ events' = events \o <<"call compute addresses list">>
                    /\ UNCHANGED <<exc, file_state>>
    /\ UNCHANGED <<project_info, buckets, compute_report, storage_report,
                   network_report, file>>

\* the rest of analyze_network (lines 158-197) and lines 299-300
Main_AnalyzeNetwork ==
    /\ pc = "network_rules"
    /\ \E proc \in Outcomes(RuleSamples) :
         LET r == run_gcloud("compute forwarding-rules list", proc)
             a == analyze_network(addresses, r.ret)
         IN /\ outcome' = [outcome EXCEPT !["compute forwarding-rules list"] = proc]
            /\ printed' = printed \o r.out
            /\ IF r.raised # "none"
               THEN /\ Raise(r.raised)
                    /\ events' = events \o <<"call compute forwarding-rules list", "close">>
                    /\ UNCHANGED <<network_report, file>>
               ELSE IF a.raised # "none"
               THEN /\ Raise(a.raised)
                    /\ events' = events \o <<"call compute forwarding-rules list", "close">>
                    /\ UNCHANGED <<network_report, file>>
               ELSE /\ pc' = "billing"
                    /\ network_report' = a.report
                    /\ file' = Concat(file, Section(a.report))
                    /\ events' = events \o <<"call compute forwarding-rules list", "write network">>
                    /\ UNCHANGED <<exc, file_state>>
    /\ UNCHANGED <<project_info, buckets, addresses, compute_report, storage_report>>

\* lines 303-304, with analyze_billing
Main_AnalyzeBilling ==
    /\ pc = "billing"
    /\ pc' = "general"
    /\ printed' = Append(printed, P("Analyzing billing data...", ""))
    /\ file' = Concat(file, Section(analyze_billing))
    /\ events' = Append(events, "write billing")
    /\ UNCHANGED <<exc, outcome, project_info, buckets, addresses, compute_report,
                   storage_report, network_report, file_state>>

\* lines 307-310: the last write, the end of the with block, the last prints
Main_Finish ==
    /\ pc = "general"
    /\ pc' = "done"
    /\ file' = Concat(file, generate_cost_recommendations)
    /\ file_state' = "closed"
    /\ printed' = printed \o <<P("Report generated: {REPORT_FILE}", ""),
                               P("To view the report, open it in a text editor.", "")>>
    /\ events' = events \o <<"write general", "close">>
    /\ UNCHANGED <<exc, outcome, project_info, buckets, addresses, compute_report,
                   storage_report, network_report>>

Next ==
    \/ Main_GetProjectInfo
    \/ Main_AnalyzeCompute
    \/ Storage_FetchBuckets
    \/ Main_AnalyzeStorage
    \/ Network_FetchAddresses
    \/ Main_AnalyzeNetwork
    \/ Main_AnalyzeBilling
    \/ Main_Finish

Spec == Init /\ [][Next]_vars

---------------------------------------------------------------------------
(* The analyzers called on their own, over every bounded listing *)

\* the state before a call: nothing written, the processes' endings chosen
Idle(at, ends) ==
    /\ pc = at
    /\ exc = "none"
    /\ outcome = ends
    /\ project_info = <<>>
    /\ buckets = None
    /\ addresses = None
    /\ compute_report = <<>>
    /\ storage_report = <<>>
    /\ network_report = <<>>
    /\ file_state = "absent"
    /\ file = <<Blank>>
    /\ printed = <<>>
    /\ events = <<>>

InitCompute ==
    \E proc \in Outcomes(SeqsUpTo(InstanceItems, MaxInstances)) :
        Idle("call_compute",
             [c \in Commands |->
                IF c = "compute instances list" THEN proc ELSE NotRun])

\* analyze_compute_instances() (lines 28-91)
Call_analyze_compute_instances ==
    /\ pc = "call_compute"
    /\ LET r == run_gcloud("compute instances list",
                           outcome["compute instances list"])
       IN /\ printed' = <<P("Analyzing Compute Engine instances...", "")>> \o r.out
          /\ events' = <<"call compute instances list">>
          /\ IF r.raised # "none"
             THEN /\ pc' = "raised"
                  /\ exc' = r.raised
                  /\ UNCHANGED compute_report
             ELSE IF analyze_compute_instances(r.ret).raised # "none"
             THEN /\ pc' = "raised"
                  /\ exc' = analyze_compute_instances(r.ret).raised
                  /\ UNCHANGED compute_report
             ELSE /\ pc' = "returned"
                  /\ compute_report' = analyze_compute_instances(r.ret).report
                  /\ UNCHANGED exc
    /\ UNCHANGED <<outcome, project_info, buckets, addresses, storage_report,
                   network_report, file_state, file>>

NextCompute == Call_analyze_compute_instances

SpecCompute == InitCompute /\ [][NextCompute]_vars

InitStorage ==
    \E b \in {[kind |-> "nonzero"], Ok(Json(<<[name |-> disk1]>>))},
       d \in Outcomes(SeqsUpTo(DiskItems, MaxDisks)) :
        Idle("call_storage",
             [c \in Commands |->
                IF c = "storage ls" THEN b
                ELSE IF c = "compute disks list" THEN d ELSE NotRun])

\* analyze_storage() (lines 93-149)
Call_analyze_storage ==
    /\ pc = "call_storage"
    /\ LET rb == run_gcloud("storage ls", outcome["storage ls"])
           rd == run_gcloud("compute disks list", outcome["compute disks list"])
       IN /\ buckets' = rb.ret
          /\ IF rb.raised # "none"
             THEN /\ pc' = "raised"
                  /\ exc' = rb.raised
                  /\ printed' = <<P("Analyzing storage resources...", "")>>
                  /\ events' = <<"call storage ls">>
                  /\ UNCHANGED storage_report
             ELSE IF rd.raised # "none"
             THEN /\ pc' = "raised"
                  /\ exc' = rd.raised
                  /\ printed' = <<P("Analyzing storage resources...", "")>> \o rb.out
                  /\ events' = <<"call storage ls", "call compute disks list">>
                  /\ UNCHANGED storage_report
             ELSE IF analyze_storage(rb.ret, rd.ret).raised # "none"
             THEN /\ pc' = "raised"
                  /\ exc' = analyze_storage(rb.ret, rd.ret).raised
                  /\ printed' = <<P("Analyzing storage resources...", "")>> \o rb.out \o rd.out
                  /\ events' = <<"call storage ls", "call compute disks list">>
                  /\ UNCHANGED storage_report
             ELSE /\ pc' = "returned"
                  /\ storage_report' = analyze_storage(rb.ret, rd.ret).report
                  /\ printed' = <<P("Analyzing storage resources...", "")>> \o rb.out \o rd.out
                  /\ events' = <<"call storage ls", "call compute disks list">>
                  /\ UNCHANGED exc
    /\ UNCHANGED <<outcome, project_info, addresses, compute_report,
                   network_report, file_state, file>>

NextStorage == Call_analyze_storage

SpecStorage == InitStorage /\ [][NextStorage]_vars

---------------------------------------------------------------------------
(* Vocabulary of the properties *)

\* the position of the first line l of text, 0 if there is none
PosOf(text, l) ==
    IF \E i \in 1..Len(text) : text[i] = l
    THEN CHOOSE i \in 1..Len(text) :
            text[i] = l /\ \A j \in 1..(i - 1) : text[j] # l
    ELSE 0

\* the lines after the first line l (none if l is missing)
After(text, l) ==
    IF PosOf(text, l) = 0 THEN <<>>
    ELSE SubSeq(text, PosOf(text, l) + 1, Len(text))

\* the lines before the first line l (all if l is missing)
Before(text, l) ==
    IF PosOf(text, l) = 0 THEN text
    ELSE SubSeq(text, 1, PosOf(text, l) - 1)

IsNonBlank(l) == l # Blank

NonBlank(text) == SelectSeq(text, IsNonBlank)

\* the lines of a report under each sub-heading
BucketSub(rep) == NonBlank(Before(After(rep, BucketHeading), DiskHeading))

DiskSub(rep) == NonBlank(After(rep, DiskHeading))

AddressSub(rep) == NonBlank(Before(After(rep, AddressHeading), RuleHeading))

RuleSub(rep) == NonBlank(After(rep, RuleHeading))

\* the lines of text whose template is t
WithTemplate(text, t) ==
    LET Is(l) == l.t = t IN SelectSeq(text, Is)

\* the elements of a finite set of numbers, ascending
RECURSIVE Ascending(_)
Ascending(S) ==
    IF S = {} THEN <<>>
    ELSE LET m == CHOOSE x \in S : \A y \in S : x <= y
         IN <<m>> \o Ascending(S \ {m})

\* the final path segment of s, stated without reference to split
FinalSegment(s) ==
    CHOOSE t \in {SubSeq(s, i, Len(s)) : i \in 1..(Len(s) + 1)} :
        /\ \A k \in 1..Len(t) : t[k] # "/"
        /\ Len(t) = Len(s) \/ s[Len(s) - Len(t)] = "/"

\* what run_gcloud returned for a command that has been run
Returned(cmd) == run_gcloud(cmd, outcome[cmd]).ret

\* the listing a command returned decodes to data
Decodes(cmd) ==
    /\ outcome[cmd].kind = "ok"
    /\ outcome[cmd].stdout.form = "json"

IsMalformed(cmd) ==
    /\ outcome[cmd].kind = "ok"
    /\ outcome[cmd].stdout.form = "malformed"

\* the command printed brackets that are never closed, nested past the
\* recursion limit
IsUnclosed(cmd) ==
    /\ outcome[cmd].kind = "ok"
    /\ outcome[cmd].stdout = Unclosed

HeaderLines ==
    <<ComputeHeader, StorageHeader, NetworkHeader, BillingHeader, GeneralHeader>>

IsHeaderLine(l) == \E i \in 1..Len(HeaderLines) : HeaderLines[i] = l

Opened == \E i \in 1..Len(events) : events[i] = "open"

\* the config fetch returned an object naming the project
HasIdentity ==
    LET o == outcome["config list"]
    IN /\ o.kind = "ok"
       /\ o.stdout.form = "json"
       /\ "core" \in DOMAIN o.stdout.val
       /\ "project" \in DOMAIN o.stdout.val.core

HasPrinted(t) == \E i \in 1..Len(printed) : printed[i].t = t

---------------------------------------------------------------------------
(* C1 *)

\* C1: in every completed run that had project identity, whatever the
\* listing fetches returned, the report file holds the five section header
\* lines COMPUTE ENGINE, STORAGE, NETWORKING, BILLING, GENERAL, each exactly
\* once and in that order.
C1_FiveHeadersInOrder ==
    (pc = "done" /\ HasIdentity)
        => SelectSeq(file, IsHeaderLine) = HeaderLines

---------------------------------------------------------------------------
(* C2 *)

\* the config fetch failed or its output carries no project
C2_NoIdentity ==
    LET o == outcome["config list"]
    IN \/ o.kind \in {"oserror", "nonzero"}
       \/ /\ o.kind = "ok"
          /\ \/ o.stdout.form # "json"
             \/ ~("core" \in DOMAIN o.stdout.val
                  /\ "project" \in DOMAIN o.stdout.val.core)

\* C2: if the config list fetch fails or yields no project information,
\* main prints the authentication hint and terminates without opening the
\* report file; the file is opened only when project identity was obtained.
C2_NoIdentityNoFile ==
    C2_NoIdentity =>
        /\ pc = "done"
        /\ exc = "none"
        /\ file_state = "absent"
        /\ ~Opened
        /\ HasPrinted("Run 'gcloud auth login' to authenticate.")

---------------------------------------------------------------------------
(* C3 *)

\* C3: once project identity has been obtained, no failure of a later
\* external command (non-zero exit or the command not starting) leaves
\* main: the run goes on until the five sections are written, the file is
\* closed and the report path is printed.
C3_LaterFailuresContained ==
    HasIdentity =>
        /\ pc # "crashed"
        /\ exc = "none"
        /\ pc = "done" =>
             /\ \A w \in {"write compute", "write storage", "write network",
                          "write billing", "write general"} :
                   \E i \in 1..Len(events) : events[i] = w
             /\ file_state = "closed"
             /\ HasPrinted("Report generated: {REPORT_FILE}")

---------------------------------------------------------------------------
(* C4 *)

ParseLineOf ==
    [c \in Commands \ {"config list"} |->
        CASE c = "compute instances list" -> L("Error parsing Compute Engine data.")
          [] c = "storage ls" -> L("1. You have Cloud Storage buckets, but couldn't parse the data.")
          [] c = "compute disks list" -> L("Error parsing disk data.")
          [] c = "compute addresses list" -> L("Error parsing IP address data.")
          [] OTHER -> L("Error parsing forwarding rules data.")]

\* the section of the listing of command c has been written
SectionWritten(c) ==
    CASE c = "compute instances list" -> compute_report # <<>>
      [] c \in {"storage ls", "compute disks list"} -> storage_report # <<>>
      [] OTHER -> network_report # <<>>

\* how often line l occurs in text
Occurrences(text, l) == Cardinality({i \in 1..Len(text) : text[i] = l})

\* the fetch of command c succeeded and its text is malformed JSON
Unparsed(c) == IsMalformed(c) \/ IsUnclosed(c)

\* C4: when a listing fetch succeeds but its text is malformed JSON, the
\* parse failure is caught inside the analyzer that requested it: no
\* exception ends the run, the report file holds the parse-error line of a
\* sub-section exactly when that listing was malformed (once, when its
\* section is written), the sibling sub-section of the same analyzer is
\* what it is when the failing listing parses, and the run still writes all
\* remaining sections.
C4_ParseFailureIsLocal ==
    /\ \A c \in Commands \ {"config list"} :
          /\ Occurrences(file, ParseLineOf[c]) =
                 IF Unparsed(c) /\ SectionWritten(c) THEN 1 ELSE 0
          /\ Unparsed(c) =>
                 /\ pc # "crashed"
                 /\ exc = "none"
                 /\ pc = "done" =>
                       /\ compute_report # <<>>
                       /\ storage_report # <<>>
                       /\ network_report # <<>>
                       /\ PosOf(file, BillingHeader) # 0
                       /\ PosOf(file, GeneralHeader) # 0
    /\ (Unparsed("compute instances list") /\ compute_report # <<>>)
          => compute_report = <<ParseLineOf["compute instances list"]>>
    /\ (Unparsed("storage ls") /\ storage_report # <<>>)
          => /\ BucketSub(storage_report)[1] = ParseLineOf["storage ls"]
             /\ \A v \in BucketSamples :
                   DiskSub(storage_report) =
                       DiskSub(analyze_storage(Json(v), Returned("compute disks list")).report)
    /\ (Unparsed("compute disks list") /\ storage_report # <<>>)
          => /\ DiskSub(storage_report) = <<ParseLineOf["compute disks list"]>>
             /\ \A v \in DiskSamples :
                   BucketSub(storage_report) =
                       BucketSub(analyze_storage(Returned("storage ls"), Json(v)).report)
    /\ (Unparsed("compute addresses list") /\ network_report # <<>>)
          => /\ AddressSub(network_report) = <<ParseLineOf["compute addresses list"]>>
             /\ \A v \in AddressSamples :
                   RuleSub(network_report) =
                       RuleSub(analyze_network(Json(v), Returned("compute forwarding-rules list")).report)
    /\ (Unparsed("compute forwarding-rules list") /\ network_report # <<>>)
          => /\ RuleSub(network_report) = <<ParseLineOf["compute forwarding-rules list"]>>
             /\ \A v \in RuleSamples :
                   AddressSub(network_report) =
                       AddressSub(analyze_network(Returned("compute addresses list"), Json(v)).report)

---------------------------------------------------------------------------
(* C5, C7, C8: analyze_compute_instances on a decoded, non-empty listing *)

\* the instance listing, once the analyzer has returned a report for it
InstancesData == outcome["compute instances list"].stdout.val

ComputeAnalyzed ==
    /\ pc = "returned"
    /\ Decodes("compute instances list")
    /\ InstancesData # <<>>

\* a sequence without its repetitions, each element where it first occurs
FirstSeen(q) ==
    LET firsts == {i \in 1..Len(q) : \A j \in 1..(i - 1) : q[j] # q[i]}
        idx == Ascending(firsts)
    IN [k \in 1..Len(idx) |-> q[idx[k]]]

RECURSIVE SumOf(_)
SumOf(q) == IF q = <<>> THEN 0 ELSE q[1] + SumOf(Tail(q))

\* C5: for a well-formed non-empty instance listing, the Instance Types
\* Summary has one row per distinct final path segment of machineType, in
\* first-seen order, each row counts the items of its type, and the counts
\* add up to the number of items.
C5_SummaryTable ==
    ComputeAnalyzed =>
        LET rows == WithTemplate(compute_report, "  - {machine_type}: {count} instances")
            types == [i \in 1..Len(InstancesData) |->
                         FinalSegment(InstancesData[i].machineType)]
        IN /\ [i \in 1..Len(rows) |-> rows[i].a[1]] = FirstSeen(types)
           /\ \A i \in 1..Len(rows) :
                 rows[i].n = Cardinality({j \in 1..Len(types) : types[j] = rows[i].a[1]})
           /\ SumOf([i \in 1..Len(rows) |-> rows[i].n]) = Len(InstancesData)
           /\ PosOf(compute_report, L("Instance Types Summary:")) # 0

\* three instances of two types: the type seen first is also seen last,
\* under another path
C5_Witness ==
    /\ ComputeAnalyzed
    /\ Len(InstancesData) = 3
    /\ InstancesData[1].machineType = MT_a_micro
    /\ InstancesData[2].machineType = MT_large
    /\ InstancesData[3].machineType = MT_b_micro
    /\ Len(WithTemplate(compute_report, "  - {machine_type}: {count} instances")) = 2

StoppedHeadT ==
    "1. You have {len(stopped_instances)} stopped instances that are still incurring storage costs:"

\* C7: for a well-formed non-empty instance listing, the stopped-instance
\* recommendation is emitted exactly when some item has status TERMINATED;
\* the count it states is the number of TERMINATED items and the names it
\* lists are those items', once each and in input order.
C7_StoppedInstances ==
    ComputeAnalyzed =>
        LET heads == WithTemplate(compute_report, StoppedHeadT)
            items == WithTemplate(compute_report, "   - {name} (Zone: {zone})")
            term == {i \in 1..Len(InstancesData) :
                        InstancesData[i].status = "TERMINATED"}
            idx == Ascending(term)
        IN /\ Len(heads) = IF term = {} THEN 0 ELSE 1
           /\ term # {} => heads[1].n = Cardinality(term)
           /\ [k \in 1..Len(items) |-> items[k].a[1]]
                 = [k \in 1..Len(idx) |-> InstancesData[idx[k]].name]
           /\ Occurrences(compute_report,
                  L("   Recommendation: Delete unused instances to avoid storage charges."))
                 = Len(heads)

\* every item of a three-item listing is TERMINATED
C7_Witness ==
    /\ ComputeAnalyzed
    /\ Len(InstancesData) = 3
    /\ \A i \in 1..3 : InstancesData[i].status = "TERMINATED"
    /\ InstancesData[1].name = vm2
    /\ InstancesData[2].name = vm1
    /\ WithTemplate(compute_report, StoppedHeadT)[1].n = 3

LargeSet == {LARGE_TYPES[k] : k \in 1..Len(LARGE_TYPES)}

\* the <<name, type>> pairs of the large-instances recommendation
LargeListed ==
    LET items == WithTemplate(compute_report,
                     "   - {name} (Type: {machine_type}, Zone: {zone})")
    IN [k \in 1..Len(items) |-> <<items[k].a[1], items[k].a[2]>>]

\* the <<name, type>> pairs of the items at the positions in S, in order
PairsAt(S) ==
    LET idx == Ascending(S)
    IN [k \in 1..Len(idx) |->
          <<InstancesData[idx[k]].name,
            FinalSegment(InstancesData[idx[k]].machineType)>>]

\* C8 as stated: an instance is listed in the large-instances
\* recommendation if and only if the final path segment of its machineType
\* is one of the six large type names.
C8_ListedIffFinalSegmentIsLarge ==
    ComputeAnalyzed =>
        LargeListed =
            PairsAt({i \in 1..Len(InstancesData) :
                        FinalSegment(InstancesData[i].machineType) \in LargeSet})

\* s = pre + name + post for one of the six large type names
HasLargeName(s) ==
    \E name \in LargeSet, i \in 0..Len(s), j \in 0..Len(s) :
        /\ i + Len(name) + j = Len(s)
        /\ s = SubSeq(s, 1, i) \o name \o SubSeq(s, Len(s) - j + 1, Len(s))

\* C8 amended: an instance is listed in the large-instances recommendation
\* if and only if its machineType string contains one of the six large
\* type names as a substring; the listed instances appear once each, in
\* input order, and the count stated is their number.
C8_ListedIffContainsLargeName ==
    ComputeAnalyzed =>
        LET S == {i \in 1..Len(InstancesData) :
                     HasLargeName(InstancesData[i].machineType)}
            heads == WithTemplate(compute_report,
                         "2. You have {len(large_instances)} large instances that might be oversized:")
        IN /\ LargeListed = PairsAt(S)
           /\ Len(heads) = IF S = {} THEN 0 ELSE 1
           /\ S # {} => heads[1].n = Cardinality(S)

\* an n2-standard-80 instance is listed beside an n2-standard-8 one, an
\* e2-micro one is not
C8_Witness ==
    /\ ComputeAnalyzed
    /\ Len(InstancesData) = 3
    /\ InstancesData[1].machineType = MT_prefix
    /\ InstancesData[2].machineType = MT_a_micro
    /\ InstancesData[3].machineType = MT_large
    /\ Len(LargeListed) = 2
    /\ LargeListed[1][2] = n2_standard_8 \o <<"0">>

---------------------------------------------------------------------------
(* C6: analyze_storage on a decoded disk listing *)

DisksData == outcome["compute disks list"].stdout.val

StorageAnalyzed ==
    /\ pc = "returned"
    /\ Decodes("compute disks list")

\* the size a disk declares, as a number (0 where it declares none)
DeclaredGb(d) ==
    CASE d.sizeGb = Size10 -> 10
      [] d.sizeGb = Size200 -> 200
      [] OTHER -> 0

\* every disk of the listing declares a size
SizesDeclared ==
    \A i \in 1..Len(DisksData) : DisksData[i].sizeGb \in {Size10, Size200}

UnattachedItemT == "   - {name} (Size: {sizeGb} GB, Type: {type})"

UnattachedTotalT == "   Total unattached disk space: {total_size_gb} GB"

\* C6: for a well-formed disk listing (each disk declaring its size) the
\* analyzer returns a report; in every report it returns the unattached
\* disks are exactly those whose users field is absent or empty, their names
\* are listed once each in input order, and when there is one the total
\* reported is the sum of their declared sizes (none is reported otherwise).
C6_UnattachedDisks ==
    /\ (pc # "call_storage" /\ Decodes("compute disks list") /\ SizesDeclared)
          => pc = "returned"
    /\ StorageAnalyzed =>
        LET un == {i \in 1..Len(DisksData) :
                      \/ "users" \notin DOMAIN DisksData[i]
                      \/ Len(DisksData[i].users) = 0}
            idx == Ascending(un)
            items == WithTemplate(storage_report, UnattachedItemT)
            totals == WithTemplate(storage_report, UnattachedTotalT)
        IN /\ [k \in 1..Len(items) |-> items[k].a[1]]
                 = [k \in 1..Len(idx) |-> DisksData[idx[k]].name]
           /\ Len(totals) = IF un = {} THEN 0 ELSE 1
           /\ un # {} =>
                 totals[1].n = SumOf([k \in 1..Len(idx) |-> DeclaredGb(DisksData[idx[k]])])

\* a disk without a users field and one with an empty users field: both are
\* listed and their sizes summed
C6_Witness ==
    /\ StorageAnalyzed
    /\ Len(DisksData) = 2
    /\ "users" \notin DOMAIN DisksData[1]
    /\ "users" \in DOMAIN DisksData[2]
    /\ DisksData[2].users = <<>>
    /\ DisksData[1].name = disk2
    /\ DisksData[2].name = disk1
    /\ WithTemplate(storage_report, UnattachedTotalT)[1].n = 210
    /\ Len(WithTemplate(storage_report, UnattachedItemT)) = 2

---------------------------------------------------------------------------
(* C9 *)

\* the listing of command c is empty: nothing returned, or an empty array
IsEmptyListing(c) ==
    \/ ~Truthy(Returned(c))
    \/ Decodes(c) /\ outcome[c].stdout.val = <<>>

NoReserved ==
    /\ Decodes("compute addresses list")
    /\ \A i \in 1..Len(outcome["compute addresses list"].stdout.val) :
          outcome["compute addresses list"].stdout.val[i].status # "RESERVED"

\* C9: in the network section each sub-heading is followed by at least one
\* line; when the address listing is empty, unparseable or without a
\* RESERVED address, and when the rule listing is empty or unparseable, that
\* line is the sub-analysis's "none found" line (its parse-error line for
\* an unparseable listing).
C9_SubHeadingNeverBare ==
    network_report # <<>> =>
        /\ AddressSub(network_report) # <<>>
        /\ RuleSub(network_report) # <<>>
        /\ (IsEmptyListing("compute addresses list") \/ NoReserved)
              => AddressSub(network_report)
                    = <<L("No external IP addresses found or error retrieving data.")>>
        /\ IsMalformed("compute addresses list")
              => AddressSub(network_report) = <<L("Error parsing IP address data.")>>
        /\ IsEmptyListing("compute forwarding-rules list")
              => RuleSub(network_report)
                    = <<L("No load balancers found or error retrieving data.")>>
        /\ IsMalformed("compute forwarding-rules list")
              => RuleSub(network_report) = <<L("Error parsing forwarding rules data.")>>

---------------------------------------------------------------------------
(* C10 *)

\* the external calls and file operations of a complete run
FullTrace ==
    <<"call config list", "open", "write preamble",
      "call compute instances list", "write compute",
      "call storage ls", "call compute disks list", "write storage",
      "call compute addresses list", "call compute forwarding-rules list",
      "write network", "write billing", "write general", "close">>

IsNotClose(e) == e # "close"

\* C10: in every run the external commands are invoked one after another,
\* each at most once, in the order config list, instances list, storage ls,
\* disks list, addresses list, forwarding-rules list, and the sections are
\* written to the one open file in the order compute, storage, network,
\* billing, general, each after its own fetches and before the next
\* section's first fetch: apart from the closing of the file, what a run
\* has done is always an initial part of the one complete trace.
C10_FixedOrder ==
    LET done == SelectSeq(events, IsNotClose)
    IN /\ Len(done) <= Len(FullTrace) - 1
       /\ done = SubSeq(FullTrace, 1, Len(done))
       /\ \A i \in 1..Len(events) : events[i] = "close" => i = Len(events)
       /\ file_state = "open" <=> (Opened /\ done = events)
       /\ \A i \in 1..Len(events) :
             (events[i] \notin {"call config list", "open", "close"})
                 => \E j \in 1..(i - 1) : events[j] = "open"

\* a complete run: all six commands called, all five sections written
C10_Witness ==
    /\ pc = "done"
    /\ events = FullTrace
    /\ \A c \in Commands : outcome[c].kind # "notrun"

====
